---------------------------- MODULE Spec2Model ----------------------------
(***************************************************************************)
(* Model of scripts/enrich_media.py: the media provenance resolution       *)
(* engine.  One run of main() loads the document, walks its POIs one at a  *)
(* time through enrich_poi (page metadata -> entity claims -> asset        *)
(* metadata -> set_media) and saves the document when something changed.   *)
(*                                                                         *)
(* Strings are sequences of tokens (a token is one character or one fixed  *)
(* piece of a URL), so that replace/strip/split act on them as in Python.  *)
(* None (a missing key, Python's None) is the empty sequence; the empty    *)
(* string is the one-token sequence <<"">>; both are falsy.                *)
(***************************************************************************)
EXTENDS Integers, Sequences, FiniteSets, TLC

VARIABLES
    file,       \* the YAML document on disk: a sequence of POI records
    doc,        \* main(): data["pois"], the document in memory
    pc,         \* main(): "idle" (no process), "loop", the network call enrich_poi
                \*         is about to issue ("page", "entity", "asset"), "done" (returning)
    i,          \* main(): index of the POI of the current iteration
    changed,    \* main(): the counter `changed`
    overwrite,  \* args.overwrite of the current run
    width,      \* args.width, the configured target width
    loc,        \* enrich_poi(): wiki_thumb, wiki_qid, wiki_page, best_qid, p18
    outcome,    \* per POI, how enrich_poi ended in the current run and what it returned
    last,       \* the POI enrich_poi ended for last, the Resolution Result it handed
                \* to set_media and its local variables at that moment
    warnings,   \* the [warn] lines printed on stderr in the current run
    calls,      \* the network calls issued in the current run, in order
    runs,       \* number of runs started
    upstream,   \* what the upstream services answered since they last changed
    quiet       \* number of runs started since the upstream last changed (capped at 2)

vars == <<file, doc, pc, i, changed, overwrite, width, loc, outcome, last, warnings,
          calls, runs, upstream, quiet>>

---------------------------------------------------------------------------
(* Bounds of the model *)

\* number of POIs of a document drawn from every shape of POI
NumPois == 1

\* number of POIs of a document of the batch specification
BatchSize == 2

\* number of runs of main() in one behaviour
MaxRuns == 2

\* number of tokens of the title part of a reference drawn from every URL
MaxTitleLen == 3

---------------------------------------------------------------------------
(* Python values *)

None == <<>>

EmptyStr == <<"">>

\* Python truthiness of an optional string
Truthy(v) == v # None /\ v # EmptyStr

\* a or b
Or(a, b) == IF Truthy(a) THEN a ELSE b

\* s.replace(a, b) on single-character a, b
Replace(s, a, b) == [k \in 1..Len(s) |-> IF s[k] = a THEN b ELSE s[k]]

RECURSIVE LStrip(_)
LStrip(s) == IF s # <<>> /\ Head(s) = " " THEN LStrip(Tail(s)) ELSE s

RECURSIVE RStrip(_)
RStrip(s) == IF s # <<>> /\ s[Len(s)] = " " THEN RStrip(SubSeq(s, 1, Len(s) - 1)) ELSE s

\* s.strip()
Strip(s) == RStrip(LStrip(s))

\* s.split("#")[0]
RECURSIVE BeforeHash(_)
BeforeHash(s) ==
    IF s = <<>> \/ Head(s) = "#" THEN <<>> ELSE <<Head(s)>> \o BeforeHash(Tail(s))

\* a token that the pattern <[^>]+> matches
IsTag(t) == t \in {"<a>", "</a>", "<b>"}

\* re.sub(r"<[^>]+>", "", val)
StripTags(s) == SelectSeq(s, LAMBDA t : ~IsTag(t))

---------------------------------------------------------------------------
(* Reference Parser *)

LangTokens == {"en", "de", "pt-br"}

WikiDomain == ".wikipedia.org/wiki/"

\* re.match(r"^https?://([a-z\-]+)\.wikipedia\.org/wiki/(.+)$", url)
UrlMatches(url) ==
    /\ Len(url) >= 4
    /\ url[1] \in {"https://", "http://"}
    /\ url[2] \in LangTokens
    /\ url[3] = WikiDomain

\* None, or the pair <<lang, title>>
wikipedia_lang_and_title(url) ==
    IF ~Truthy(url) THEN None
    ELSE IF ~UrlMatches(url) THEN None
    ELSE <<<<url[2]>>, Replace(BeforeHash(SubSeq(url, 4, Len(url))), "_", " ")>>

---------------------------------------------------------------------------
(* Page Metadata Client: the dictionary built from the API's page object *)

NoInfo == [thumbnail |-> None, qid |-> None, page_url |-> None]

\* raw: [kind |-> "ok", missing, thumbnail, qid, title]
wikipedia_pageinfo(lang, title, raw) ==
    IF raw.missing THEN NoInfo
    ELSE [thumbnail |-> raw.thumbnail,
          qid       |-> raw.qid,
          page_url  |-> <<"https://">> \o lang \o <<WikiDomain>>
                          \o Replace(Or(raw.title, title), " ", "_")]

---------------------------------------------------------------------------
(* Entity Image Resolver *)

\* ent: [found, p18], p18 the sequence of the values of the image claim
wikidata_p18_filename(ent) ==
    IF ent.p18 = <<>> THEN None
    ELSE IF Truthy(Strip(ent.p18[1])) THEN Strip(ent.p18[1])
    ELSE None

---------------------------------------------------------------------------
(* Asset Metadata Client *)

CommonsFilePath == "https://commons.wikimedia.org/wiki/Special:FilePath/"

CommonsFilePage == "https://commons.wikimedia.org/wiki/File:"

\* the thumbnail URL with the file name as declared, spaces kept
commons_thumb_url_raw(filename, w) ==
    <<CommonsFilePath>> \o filename \o <<"?width=", ToString(w)>>

commons_thumb_url(filename, w) ==
    <<CommonsFilePath>> \o Replace(filename, " ", "_") \o <<"?width=", ToString(w)>>

commons_page_url(filename) ==
    <<CommonsFilePage>> \o Replace(filename, " ", "_")

NoMeta == [license |-> None, license_url |-> None, credit |-> None]

\* _v(k): the plain text of an extmetadata value, None when empty
MetaValue(val) == IF Truthy(Strip(StripTags(val))) THEN Strip(StripTags(val)) ELSE None

\* raw: [kind |-> "ok", hasinfo, LicenseShortName, License, LicenseUrl, Credit, Artist, user]
commons_imageinfo(raw) ==
    IF ~raw.hasinfo THEN NoMeta
    ELSE [license     |-> Or(MetaValue(raw.LicenseShortName), MetaValue(raw.License)),
          license_url |-> MetaValue(raw.LicenseUrl),
          credit      |-> Or(Or(MetaValue(raw.Credit), MetaValue(raw.Artist)), raw.user)]

---------------------------------------------------------------------------
(* POI records.  A dictionary is a record whose missing keys hold None;    *)
(* `present` tells a missing sub-dictionary from one that is there.        *)

Wikimedia == <<"wikimedia">>

NoImage == [present |-> FALSE, thumb |-> None, page |-> None, license |-> None,
            license_url |-> None, credit |-> None, source |-> None]

NoMedia == [present |-> FALSE, image |-> NoImage, gallery |-> None]

\* the body of set_media: the POI after the merge and the value returned
set_media_merge(poi, thumb, page, meta) ==
    LET img0 == poi.media.image
        c1   == img0.thumb # thumb
        img1 == IF c1 THEN [img0 EXCEPT !.thumb = thumb] ELSE img0
        c2   == Truthy(page) /\ img1.page # page
        img2 == IF c2 THEN [img1 EXCEPT !.page = page] ELSE img1
        c3   == Truthy(meta.license) /\ img2.license # meta.license
        img3 == IF c3 THEN [img2 EXCEPT !.license = meta.license] ELSE img2
        c4   == Truthy(meta.license_url) /\ img3.license_url # meta.license_url
        img4 == IF c4 THEN [img3 EXCEPT !.license_url = meta.license_url] ELSE img3
        c5   == Truthy(meta.credit) /\ img4.credit # meta.credit
        img5 == IF c5 THEN [img4 EXCEPT !.credit = meta.credit] ELSE img4
        c6   == img5.source # Wikimedia
        img6 == IF c6 THEN [img5 EXCEPT !.source = Wikimedia] ELSE img5
    IN  [poi     |-> [poi EXCEPT !.media = [present |-> TRUE,
                                            gallery |-> poi.media.gallery,
                                            image   |-> [img6 EXCEPT !.present = TRUE]]],
         changed |-> c1 \/ c2 \/ c3 \/ c4 \/ c5 \/ c6]

\* set_media without its last line, poi["media"] = media
set_media_detached(poi, thumb, page, meta) ==
    IF poi.media.present THEN set_media_merge(poi, thumb, page, meta)
    ELSE [poi |-> poi, changed |-> TRUE]

\* set_media returning early when the thumbnail is the one already stored
set_media_early_return(poi, thumb, page, meta) ==
    IF poi.media.image.thumb = thumb THEN [poi |-> poi, changed |-> FALSE]
    ELSE set_media_merge(poi, thumb, page, meta)

\* set_media building a new media dictionary around the image
set_media_fresh_media(poi, thumb, page, meta) ==
    [set_media_merge(poi, thumb, page, meta) EXCEPT !.poi.media.gallery = None]

\* set_media returning True whatever it wrote
set_media_reports_true(poi, thumb, page, meta) ==
    [set_media_merge(poi, thumb, page, meta) EXCEPT !.changed = TRUE]

\* set_media(poi, thumb, page, meta)
set_media(poi, thumb, page, meta) == set_media_merge(poi, thumb, page, meta)

---------------------------------------------------------------------------
(* The values the model draws documents and upstream answers from *)

DefaultWidth == 900

Widths == {DefaultWidth, 320}

Q1 == <<"Q1">>

Q2 == <<"Q2">>

\* links.wikipedia values: one the Reference Parser accepts, one it rejects
WikiGood == <<"https://", "en", WikiDomain, "A", "_", "b", "#", "s">>

WikiBad == <<"https://", "en", ".example.org/wiki/", "A", "_", "b">>

\* the title the API reports for the page (after redirects)
ApiTitle == <<"A", " ", "c">>

WikiThumb == <<"https://upload.wikimedia.org/thumb/", "A", "c", ".jpg">>

\* image-claim values as the entity API returns them
RawA == <<" ", "A", " ", "b", ".jpg">>

RawB == <<"C", ".jpg">>

RawBlank == <<" ">>

FileA == <<"A", " ", "b", ".jpg">>

FileOld == <<"O", ".jpg">>

Gallery == <<"g1">>

\* a call that raises (timeout, connection error, HTTP error status, bad JSON)
Failures == {[kind |-> "raise"]}

PageResponses ==
    Failures
    \cup {[kind |-> "ok", missing |-> TRUE, thumbnail |-> None, qid |-> None, title |-> None]}
    \cup [kind : {"ok"}, missing : {FALSE}, thumbnail : {None, WikiThumb},
          qid : {None, Q2}, title : {ApiTitle}]

EntityResponses ==
    Failures
    \cup {[kind |-> "ok", found |-> FALSE, p18 |-> <<>>]}
    \cup [kind : {"ok"}, found : {TRUE}, p18 : {<<>>, <<RawBlank>>, <<RawA, RawB>>}]

AssetResponses ==
    Failures
    \cup {[kind |-> "ok", hasinfo |-> FALSE, LicenseShortName |-> None, License |-> None,
           LicenseUrl |-> None, Credit |-> None, Artist |-> None, user |-> None],
          [kind |-> "ok", hasinfo |-> TRUE, LicenseShortName |-> <<"CC BY">>,
           License |-> <<"cc-by">>, LicenseUrl |-> <<"https://cc/by">>,
           Credit |-> <<"<a>", "Bob", "</a>", " ">>, Artist |-> <<"Al">>, user |-> <<"Up">>],
          \* image info whose metadata are empty once the tags are stripped
          [kind |-> "ok", hasinfo |-> TRUE, LicenseShortName |-> None,
           License |-> <<" ">>, LicenseUrl |-> None,
           Credit |-> <<"<b>">>, Artist |-> None, user |-> None]}

Image(thumb, page, license, license_url, credit, source) ==
    [present |-> TRUE, thumb |-> thumb, page |-> page, license |-> license,
     license_url |-> license_url, credit |-> credit, source |-> source]

\* media sub-records as a human may have written them
InitMedia ==
    { NoMedia,
      [present |-> TRUE, gallery |-> Gallery, image |-> NoImage],
      \* a thumbnail set by hand, nothing else
      [present |-> TRUE, gallery |-> Gallery,
       image |-> Image(commons_thumb_url(FileA, DefaultWidth), None, None, None, None, None)],
      \* an emptied thumbnail beside an old license
      [present |-> TRUE, gallery |-> None,
       image |-> Image(EmptyStr, None, <<"GFDL">>, None, None, None)] }

InitLinks == [wikidata : {None, Q1}, wikipedia : {None, WikiBad, WikiGood}]

PoiId(k) == <<"poi", ToString(k)>>

\* the documents of n POIs of the given shapes
Docs(n, shapes) ==
    { [k \in 1..n |-> [id |-> PoiId(k), name |-> <<"Name", ToString(k)>>,
                       links |-> sh[k].links, media |-> sh[k].media]] :
        sh \in [1..n -> shapes] }

InitDocs == Docs(NumPois, [links : InitLinks, media : InitMedia])

\* the POIs of a batch: one with both links and no image, one with a
\* thumbnail set by hand, one without links, one with a stored entity id and
\* a reference the parser rejects, one with an emptied entity id
BatchPois ==
    { [links |-> [wikidata |-> Q1, wikipedia |-> WikiGood], media |-> NoMedia],
      [links |-> [wikidata |-> None, wikipedia |-> WikiGood],
       media |-> [present |-> TRUE, gallery |-> Gallery,
                  image |-> Image(commons_thumb_url(FileA, DefaultWidth),
                                  None, None, None, None, None)]],
      [links |-> [wikidata |-> None, wikipedia |-> None], media |-> NoMedia],
      [links |-> [wikidata |-> Q1, wikipedia |-> WikiBad],
       media |-> [present |-> TRUE, gallery |-> Gallery, image |-> NoImage]],
      [links |-> [wikidata |-> EmptyStr, wikipedia |-> WikiGood], media |-> NoMedia] }

BatchDocs == Docs(BatchSize, BatchPois)

\* the tokens of the title part of a URL: a letter, an underscore, the
\* fragment separator, a percent-encoded parenthesis
TitleTokens == {"A", "_", "#", "%28"}

RECURSIVE TitlesOfLen(_)
TitlesOfLen(n) ==
    IF n = 0 THEN {<<>>}
    ELSE {<<t>> \o r : t \in TitleTokens, r \in TitlesOfLen(n - 1)}

\* links.wikipedia as a human may have pasted it: any scheme, language code,
\* domain and title
ParseUrls ==
    { <<sch, lg, dom>> \o t :
        sch \in {"https://", "http://"}, lg \in {"en", "pt-br", "EN"},
        dom \in {WikiDomain, ".example.org/wiki/"},
        t \in UNION {TitlesOfLen(n) : n \in 1..MaxTitleLen} }

\* the documents of one POI without image whose reference is any such URL
ParseDocs == Docs(1, [links : [wikidata : {None}, wikipedia : ParseUrls], media : {NoMedia}])

---------------------------------------------------------------------------
(* enrich_poi and main.  A step of the program runs from one network call  *)
(* to the next; `m` is the program state a step works on.                  *)

NoLoc == [lang |-> None, title |-> None, wiki_thumb |-> None, wiki_qid |-> None,
          wiki_page |-> None, best_qid |-> None, p18 |-> None]

\* outcome[j]: how enrich_poi ended for POI j (via: "skip", "none", "page",
\* "entity", or "fail" when a call raised) and the value it returned
Pending == [via |-> "pending", changed |-> FALSE]

NoLast == [j |-> 0, thumb |-> None, page |-> None, meta |-> NoMeta, loc |-> NoLoc]

Cur == [doc |-> doc, pc |-> pc, i |-> i, changed |-> changed, loc |-> loc,
        outcome |-> outcome, last |-> last, warnings |-> warnings]

\* enrich_poi returns `res.changed`; main counts it and moves to the next POI
Return(m, res, via, thumb, page, meta) ==
    [m EXCEPT !.doc[m.i] = res.poi,
              !.changed  = IF res.changed THEN m.changed + 1 ELSE m.changed,
              !.outcome[m.i] = [via |-> via, changed |-> res.changed],
              !.last = [j |-> m.i, thumb |-> thumb, page |-> page, meta |-> meta,
                        loc |-> m.loc],
              !.i   = m.i + 1,
              !.pc  = "loop",
              !.loc = NoLoc]

\* enrich_poi returns False without touching the POI
ReturnFalse(m, via) ==
    Return(m, [poi |-> m.doc[m.i], changed |-> FALSE], via, None, None, NoMeta)

\* a failure that ends the whole loop instead of one iteration
RaiseAborts(m, kind) ==
    [m EXCEPT !.outcome[m.i] = [via |-> "fail", changed |-> FALSE],
              !.last = [NoLast EXCEPT !.j = m.i, !.loc = m.loc],
              !.i   = Len(m.doc) + 1,
              !.changed = 0,
              !.pc  = "loop",
              !.loc = NoLoc]

\* the page thumbnail written as soon as it is known: a later failure
\* leaves it on the POI
RaiseAfterWrite(m, kind) ==
    [m EXCEPT !.doc[m.i] = IF Truthy(m.loc.wiki_thumb)
                           THEN set_media(m.doc[m.i], m.loc.wiki_thumb,
                                          m.loc.wiki_page, NoMeta).poi
                           ELSE m.doc[m.i],
              !.warnings = Append(m.warnings, m.doc[m.i].id),
              !.outcome[m.i] = [via |-> "fail", changed |-> FALSE],
              !.last = [NoLast EXCEPT !.j = m.i, !.loc = m.loc],
              !.i   = m.i + 1,
              !.pc  = "loop",
              !.loc = NoLoc]

\* a call raised: main's except clauses print the warning and go on
Raise(m, kind) ==
    [m EXCEPT !.warnings = Append(m.warnings, m.doc[m.i].id),
              !.outcome[m.i] = [via |-> "fail", changed |-> FALSE],
              !.last = [NoLast EXCEPT !.j = m.i, !.loc = m.loc],
              !.i   = m.i + 1,
              !.pc  = "loop",
              !.loc = NoLoc]

\* the fallback applied even when there is no page thumbnail
FallBackAlways(m) ==
    Return(m, set_media(m.doc[m.i], m.loc.wiki_thumb,
                        Or(m.loc.wiki_page, m.doc[m.i].links.wikipedia), NoMeta),
           "page", m.loc.wiki_thumb,
           Or(m.loc.wiki_page, m.doc[m.i].links.wikipedia), NoMeta)

\* the fallback citing the POI's own link instead of the canonical page URL
FallBackOwnLink(m) ==
    IF Truthy(m.loc.wiki_thumb)
    THEN Return(m, set_media(m.doc[m.i], m.loc.wiki_thumb,
                             m.doc[m.i].links.wikipedia, NoMeta),
                "page", m.loc.wiki_thumb, m.doc[m.i].links.wikipedia, NoMeta)
    ELSE ReturnFalse(m, "none")

\* "Fall back to Wikipedia-provided thumbnail"
FallBack(m) ==
    IF Truthy(m.loc.wiki_thumb)
    THEN Return(m, set_media(m.doc[m.i], m.loc.wiki_thumb,
                             Or(m.loc.wiki_page, m.doc[m.i].links.wikipedia), NoMeta),
                "page", m.loc.wiki_thumb,
                Or(m.loc.wiki_page, m.doc[m.i].links.wikipedia), NoMeta)
    ELSE ReturnFalse(m, "none")

\* the candidate entity id taken from the page before the POI's own
BestQidPageFirst(poi, wiki_qid) == Or(wiki_qid, poi.links.wikidata)

\* best_qid = qid or wiki_qid
BestQid(poi, wiki_qid) == Or(poi.links.wikidata, wiki_qid)

\* "Prefer Wikidata P18 if we have QID": the entity call is next, or the fallback
Resolve(m) ==
    LET q == BestQid(m.doc[m.i], m.loc.wiki_qid)
    IN  IF Truthy(q)
        THEN [m EXCEPT !.pc = "entity", !.loc.best_qid = q]
        ELSE FallBack(m)

\* the guard that skips only an image that has its source page too
SkipsIfComplete(poi, ow) ==
    Truthy(poi.media.image.thumb) /\ Truthy(poi.media.image.page) /\ ~ow

\* existing and not overwrite
Skips(poi, ow) == Truthy(poi.media.image.thumb) /\ ~ow

\* a reference the parser rejects ends the resolution of the POI
BeginNeedsReference(m, ow) ==
    LET poi == m.doc[m.i]
        lt  == wikipedia_lang_and_title(poi.links.wikipedia)
    IN  IF Skips(poi, ow) THEN ReturnFalse(m, "skip")
        ELSE IF Truthy(poi.links.wikipedia) /\ lt # None
        THEN [m EXCEPT !.pc = "page", !.loc.lang = lt[1], !.loc.title = lt[2]]
        ELSE IF Truthy(poi.links.wikipedia) THEN ReturnFalse(m, "none")
        ELSE Resolve(m)

\* enrich_poi up to its first network call
Begin(m, ow) ==
    LET poi == m.doc[m.i]
        lt  == wikipedia_lang_and_title(poi.links.wikipedia)
    IN  IF Skips(poi, ow) THEN ReturnFalse(m, "skip")
        ELSE IF Truthy(poi.links.wikipedia) /\ lt # None
        THEN [m EXCEPT !.pc = "page", !.loc.lang = lt[1], !.loc.title = lt[2]]
        ELSE Resolve(m)

\* enrich_poi from the answer of wikipedia_pageinfo on
AfterPage(m, raw) ==
    IF raw.kind # "ok" THEN Raise(m, raw.kind)
    ELSE LET info == wikipedia_pageinfo(m.loc.lang, m.loc.title, raw)
         IN  Resolve([m EXCEPT !.loc.wiki_thumb = info.thumbnail,
                               !.loc.wiki_qid   = info.qid,
                               !.loc.wiki_page  = Or(info.page_url,
                                                     m.doc[m.i].links.wikipedia)])

\* the asset metadata asked for whatever the entity declares
AfterEntityAsksAnyway(m, raw) ==
    IF raw.kind # "ok" THEN Raise(m, raw.kind)
    ELSE [m EXCEPT !.pc = "asset", !.loc.p18 = wikidata_p18_filename(raw)]

\* enrich_poi from the answer of wikidata_entity on
AfterEntity(m, raw) ==
    IF raw.kind # "ok" THEN Raise(m, raw.kind)
    ELSE IF raw.found /\ wikidata_p18_filename(raw) # None
    THEN [m EXCEPT !.pc = "asset", !.loc.p18 = wikidata_p18_filename(raw)]
    ELSE FallBack(m)

\* the page thumbnail, when there is one, taken before the entity's image
AfterAssetPageFirst(m, raw, w) ==
    IF raw.kind # "ok" THEN Raise(m, raw.kind)
    ELSE IF Truthy(m.loc.wiki_thumb) THEN FallBack(m)
    ELSE Return(m, set_media(m.doc[m.i], commons_thumb_url(m.loc.p18, w),
                             commons_page_url(m.loc.p18), commons_imageinfo(raw)),
                "entity", commons_thumb_url(m.loc.p18, w), commons_page_url(m.loc.p18),
                commons_imageinfo(raw))

\* enrich_poi from the answer of commons_imageinfo on
AfterAsset(m, raw, w) ==
    IF raw.kind # "ok" THEN Raise(m, raw.kind)
    ELSE Return(m, set_media(m.doc[m.i], commons_thumb_url(m.loc.p18, w),
                             commons_page_url(m.loc.p18), commons_imageinfo(raw)),
                "entity", commons_thumb_url(m.loc.p18, w), commons_page_url(m.loc.p18),
                commons_imageinfo(raw))

\* the program state after a step
Goto(m) ==
    /\ doc' = m.doc
    /\ pc' = m.pc
    /\ i' = m.i
    /\ changed' = m.changed
    /\ loc' = m.loc
    /\ outcome' = m.outcome
    /\ last' = m.last
    /\ warnings' = m.warnings

---------------------------------------------------------------------------
(* The upstream services: an answer stays what it was until they change *)

NoAnswers == <<>>

PageKey(l) == <<"page", l.lang, l.title>>

EntityKey(l) == <<"entity", l.best_qid, <<>>>>

AssetKey(l) == <<"asset", l.p18, <<>>>>

Answers(key, r) ==
    IF \E k \in DOMAIN upstream : upstream[k].key = key
    THEN /\ \E k \in DOMAIN upstream : upstream[k] = [key |-> key, answer |-> r]
         /\ UNCHANGED upstream
    ELSE upstream' = Append(upstream, [key |-> key, answer |-> r])

---------------------------------------------------------------------------
(* Actions *)

InitWith(docs) ==
    /\ file \in docs
    /\ doc = file
    /\ pc = "idle"
    /\ i = 1
    /\ changed = 0
    /\ overwrite = FALSE
    /\ width \in Widths
    /\ loc = NoLoc
    /\ outcome = [k \in 1..Len(file) |-> Pending]
    /\ last = NoLast
    /\ warnings = <<>>
    /\ calls = <<>>
    /\ runs = 0
    /\ upstream = NoAnswers
    /\ quiet = 0

\* documents of NumPois POIs of every shape
Init == InitWith(InitDocs)

\* documents of BatchSize POIs
InitBatch == InitWith(BatchDocs)

\* documents of one POI with any reference
InitParse == InitWith(ParseDocs)

\* main() up to the loop over the POIs, --overwrite drawn from ows
Start(ows) ==
    /\ pc = "idle"
    /\ runs < MaxRuns
    /\ \E ow \in ows : overwrite' = ow
    /\ UNCHANGED width
    /\ doc' = file
    /\ pc' = "loop"
    /\ i' = 1
    /\ changed' = 0
    /\ loc' = NoLoc
    /\ outcome' = [k \in 1..Len(file) |-> Pending]
    /\ last' = NoLast
    /\ warnings' = <<>>
    /\ calls' = <<>>
    /\ runs' = runs + 1
    /\ UNCHANGED file

\* a run with any command line; what the upstream answers is not tracked
StartRun ==
    /\ Start(BOOLEAN)
    /\ UNCHANGED <<upstream, quiet>>

\* the one run over a batch
StartBatch ==
    /\ runs = 0
    /\ Start(BOOLEAN)
    /\ UNCHANGED <<upstream, quiet>>

\* a run without --overwrite, counted since the upstream last changed
StartRunKeep ==
    /\ Start({FALSE})
    /\ quiet' = IF quiet < 2 THEN quiet + 1 ELSE 2
    /\ UNCHANGED upstream

\* one iteration of the loop begins: enrich_poi(poi, width, overwrite)
EnrichBegin ==
    /\ pc = "loop"
    /\ i <= Len(doc)
    /\ Goto(Begin(Cur, overwrite))
    /\ UNCHANGED <<file, overwrite, width, calls, runs, upstream, quiet>>

\* a network call of the POI in hand is answered by raw
PageCallGets(raw) ==
    /\ pc = "page"
    /\ Goto(AfterPage(Cur, raw))
    /\ calls' = Append(calls, <<i, "page">>)
    /\ UNCHANGED <<file, overwrite, width, runs, quiet>>

EntityCallGets(raw) ==
    /\ pc = "entity"
    /\ Goto(AfterEntity(Cur, raw))
    /\ calls' = Append(calls, <<i, "entity">>)
    /\ UNCHANGED <<file, overwrite, width, runs, quiet>>

AssetCallGets(raw) ==
    /\ pc = "asset"
    /\ Goto(AfterAsset(Cur, raw, width))
    /\ calls' = Append(calls, <<i, "asset">>)
    /\ UNCHANGED <<file, overwrite, width, runs, quiet>>

\* the upstream may answer anything
PageCall == \E raw \in PageResponses : PageCallGets(raw) /\ UNCHANGED upstream

EntityCall == \E raw \in EntityResponses : EntityCallGets(raw) /\ UNCHANGED upstream

AssetCall == \E raw \in AssetResponses : AssetCallGets(raw) /\ UNCHANGED upstream

\* the upstream answers a question it was asked before as it did then
PageCallSame ==
    \E raw \in PageResponses : PageCallGets(raw) /\ Answers(PageKey(loc), raw)

EntityCallSame ==
    \E raw \in EntityResponses : EntityCallGets(raw) /\ Answers(EntityKey(loc), raw)

AssetCallSame ==
    \E raw \in AssetResponses : AssetCallGets(raw) /\ Answers(AssetKey(loc), raw)

\* the document main saves: skipped when the counter is zero
Saved(f, d, n) == IF n > 0 THEN d ELSE f

\* the loop is over: save_yaml when something changed, print the summary
LoopEnd ==
    /\ pc = "loop"
    /\ i > Len(doc)
    /\ file' = Saved(file, doc, changed)
    /\ pc' = "done"
    /\ UNCHANGED <<doc, i, changed, overwrite, width, loc, outcome, last, warnings,
                   calls, runs, upstream, quiet>>

\* main returns 0 and the process ends: nothing but the file is left
Exit ==
    /\ pc = "done"
    /\ pc' = "idle"
    /\ doc' = file
    /\ i' = 1
    /\ changed' = 0
    /\ overwrite' = FALSE
    /\ UNCHANGED width
    /\ loc' = NoLoc
    /\ outcome' = [k \in 1..Len(file) |-> Pending]
    /\ last' = NoLast
    /\ warnings' = <<>>
    /\ calls' = <<>>
    /\ UNCHANGED <<file, runs, upstream, quiet>>

\* the encyclopedia, the knowledge base or the file repository change,
\* or a service that was down comes back
UpstreamChange ==
    /\ pc = "idle"
    /\ upstream # NoAnswers
    /\ upstream' = NoAnswers
    /\ quiet' = 0
    /\ UNCHANGED <<file, doc, pc, i, changed, overwrite, width, loc, outcome, last,
                   warnings, calls, runs>>

Next ==
    \/ StartRun
    \/ EnrichBegin
    \/ PageCall
    \/ EntityCall
    \/ AssetCall
    \/ LoopEnd
    \/ Exit

Spec == Init /\ [][Next]_vars

\* runs without --overwrite against an upstream whose answers are remembered
NextKeep ==
    \/ StartRunKeep
    \/ EnrichBegin
    \/ PageCallSame
    \/ EntityCallSame
    \/ AssetCallSame
    \/ LoopEnd
    \/ Exit
    \/ UpstreamChange

SpecKeep == Init /\ [][NextKeep]_vars

\* one run over a batch of POIs
NextBatch ==
    \/ StartBatch
    \/ EnrichBegin
    \/ PageCall
    \/ EntityCall
    \/ AssetCall
    \/ LoopEnd
    \/ Exit

SpecBatch == InitBatch /\ [][NextBatch]_vars

\* one run over a POI whose reference is any URL
SpecParse == InitParse /\ [][NextBatch]_vars

---------------------------------------------------------------------------
(* Properties.  While the loop runs (and until the document is saved) the  *)
(* file still holds every POI as it was before the run.                    *)

Running == pc \in {"loop", "page", "entity", "asset"}

LoopOver == pc = "loop" /\ i > Len(doc)

\* the POIs enrich_poi has returned (or raised) for in this run
Handled == IF Running THEN 1..(i - 1) ELSE {}

\* enrich_poi has just ended for POI last.j, not by the no-regression skip
\* and not by a failed call
Resolved ==
    /\ Running
    /\ last.j # 0
    /\ outcome[last.j].via \notin {"skip", "fail"}

ThumbOf(poi) == poi.media.image.thumb

Range(sq) == {sq[k] : k \in DOMAIN sq}

\* the POI has a valid encyclopedia reference
HasReference(poi) ==
    Truthy(poi.links.wikipedia) /\ wikipedia_lang_and_title(poi.links.wikipedia) # None

\* C1: a POI whose thumb is set is left exactly as it was by a run without
\* --overwrite, and enrich_poi returns False for it, whatever the upstream
\* would have answered (it is not even asked).
C1_NoRegression ==
    \A j \in Handled :
        (Truthy(ThumbOf(file[j])) /\ ~overwrite)
            => /\ doc[j] = file[j]
               /\ outcome[j].via = "skip"
               /\ ~outcome[j].changed
               /\ \A k \in DOMAIN calls : calls[k][1] # j

C1_Witness ==
    \E j \in Handled :
        /\ Truthy(ThumbOf(file[j]))
        /\ ~overwrite
        /\ HasReference(file[j])
        /\ Truthy(file[j].links.wikidata)

\* C2 as stated: at the end of a second run without --overwrite the document
\* is the one the first run left, whatever the upstream answers in between.
C2_IdempotentWhatever ==
    (LoopOver /\ runs >= 2) => (doc = file /\ changed = 0)

\* C2 as amended: when every upstream call of the second run is answered as
\* in the first run (the upstream did not change since the first run began),
\* the second run without --overwrite changes no POI and saves nothing.
C2_Idempotent ==
    (LoopOver /\ runs >= 2 /\ quiet = 2) => (doc = file /\ changed = 0)

C2_Witness ==
    /\ LoopOver
    /\ runs >= 2
    /\ quiet = 2
    /\ calls # <<>>
    /\ \E j \in DOMAIN doc : outcome[j].via = "none" /\ HasReference(doc[j])

C4_Containment ==
    /\ (Running \/ pc = "done") =>
          \A j \in DOMAIN doc :
              outcome[j].via = "fail" <=> doc[j].id \in Range(warnings)
    /\ LoopOver => \A j \in DOMAIN doc : outcome[j].via # "pending"
    /\ pc = "done" =>
          /\ \A j \in DOMAIN doc : outcome[j].via # "pending"
          /\ file = doc
          /\ changed = Cardinality({j \in DOMAIN doc : outcome[j].changed})

C4_Witness ==
    /\ pc = "done"
    /\ \E j, k \in DOMAIN doc :
          /\ j < k
          /\ outcome[j].via = "fail"
          /\ outcome[k].changed
          /\ Truthy(ThumbOf(file[k]))
          /\ outcome[k].via \in {"page", "entity"}

\* the POI was processed, no call of its failed, and only the page path
\* offered a thumbnail: there was no candidate entity id, or the entity
\* call found no image claim
PageThumbOnly ==
    /\ Resolved
    /\ HasReference(file[last.j])
    /\ Truthy(last.loc.wiki_thumb)
    /\ last.loc.p18 = None

\* the canonical URL of the page the API reported for the POI's reference
CanonicalPage == <<"https://", "en", WikiDomain, "A", "_", "c">>

\* C5 as stated: after the page-thumbnail fallback the sub-record has the
\* page thumbnail, the canonical page URL and no license metadata.
C5_FallbackNoLicense ==
    PageThumbOnly
        => /\ ThumbOf(doc[last.j]) = last.loc.wiki_thumb
           /\ doc[last.j].media.image.page = CanonicalPage
           /\ doc[last.j].media.image.license = None
           /\ doc[last.j].media.image.license_url = None
           /\ doc[last.j].media.image.credit = None

\* C5 as amended: ... the page thumbnail, the canonical page URL, and the
\* license, license URL and credit it had before the run (none when it had
\* none): the fallback adds no license metadata and removes none.
C5_Fallback ==
    PageThumbOnly
        => /\ ThumbOf(doc[last.j]) = last.loc.wiki_thumb
           /\ ThumbOf(doc[last.j]) = WikiThumb
           /\ doc[last.j].media.image.page = CanonicalPage
           /\ doc[last.j].media.image.license = file[last.j].media.image.license
           /\ doc[last.j].media.image.license_url = file[last.j].media.image.license_url
           /\ doc[last.j].media.image.credit = file[last.j].media.image.credit
           /\ outcome[last.j].via = "page"

C5_Witness ==
    /\ PageThumbOnly
    /\ Truthy(last.loc.best_qid)
    /\ ~file[last.j].media.image.present
    /\ doc[last.j].media.image.license = None

\* neither the entity path nor the page path offered a thumbnail
NothingFound ==
    /\ Resolved
    /\ last.loc.p18 = None
    /\ ~Truthy(last.loc.wiki_thumb)

\* C6: a POI for which no path yields a thumbnail (a POI without links among
\* them) is left as it was, a missing media.image stays missing, nothing is
\* raised and enrich_poi returns False.
C6_NoAssetNoOp ==
    /\ NothingFound
          => /\ doc[last.j] = file[last.j]
             /\ outcome[last.j] = [via |-> "none", changed |-> FALSE]
             /\ doc[last.j].id \notin Range(warnings)
    /\ \A j \in Handled :
          (file[j].links.wikidata = None /\ file[j].links.wikipedia = None)
              => /\ doc[j] = file[j]
                 /\ ~outcome[j].changed
                 /\ outcome[j].via \in {"none", "skip"}
                 /\ doc[j].id \notin Range(warnings)
                 /\ \A k \in DOMAIN calls : calls[k][1] # j

C6_Witness ==
    /\ NothingFound
    /\ HasReference(file[last.j])
    /\ Truthy(last.loc.best_qid)
    /\ ~doc[last.j].media.image.present

\* F with every space replaced by an underscore
Underscored(F) == [k \in DOMAIN F |-> IF F[k] = " " THEN "_" ELSE F[k]]

\* C7: when the candidate entity declares file name F and no call fails,
\* thumb is the Special:FilePath URL of F (spaces as underscores) with the
\* configured width and page is the File: page of F, whether or not the
\* asset-metadata query returned any license, license URL or credit.
C7_EntityResult ==
    (Resolved /\ last.loc.p18 # None)
        => /\ ThumbOf(doc[last.j]) =
                  <<"https://commons.wikimedia.org/wiki/Special:FilePath/">>
                  \o Underscored(last.loc.p18)
                  \o <<"?width=", ToString(width)>>
           /\ doc[last.j].media.image.page =
                  <<"https://commons.wikimedia.org/wiki/File:">>
                  \o Underscored(last.loc.p18)
           /\ doc[last.j].media.image.source = Wikimedia

C7_Witness ==
    /\ Resolved
    /\ outcome[last.j].via = "entity"
    /\ last.loc.p18 = FileA
    /\ last.meta = NoMeta
    /\ ~file[last.j].media.image.present
    /\ width # DefaultWidth
    /\ ThumbOf(doc[last.j]) = <<CommonsFilePath, "A", "_", "b", ".jpg", "?width=", "320">>
    /\ doc[last.j].media.image.license = None

\* every field of a POI that is not its media.image sub-record
Others(poi) ==
    [id |-> poi.id, name |-> poi.name, links |-> poi.links, gallery |-> poi.media.gallery]

\* the POI had a thumb and no license, and a run with --overwrite got from the
\* entity path the same thumbnail URL with a license, a license URL and a credit
SameThumbNewLicense ==
    /\ Resolved
    /\ overwrite
    /\ Truthy(ThumbOf(file[last.j]))
    /\ ~Truthy(file[last.j].media.image.license)
    /\ outcome[last.j].via = "entity"
    /\ last.thumb = ThumbOf(file[last.j])
    /\ Truthy(last.meta.license)
    /\ Truthy(last.meta.license_url)
    /\ Truthy(last.meta.credit)

\* C8: such a run fills in license, license_url and credit, leaves thumb and
\* every unrelated field alone, and reports the record as changed.
C8_FieldMerge ==
    SameThumbNewLicense
        => /\ doc[last.j].media.image.license = last.meta.license
           /\ doc[last.j].media.image.license_url = last.meta.license_url
           /\ doc[last.j].media.image.credit = last.meta.credit
           /\ ThumbOf(doc[last.j]) = ThumbOf(file[last.j])
           /\ Others(doc[last.j]) = Others(file[last.j])
           /\ outcome[last.j].changed

C8_Witness ==
    /\ SameThumbNewLicense
    /\ file[last.j].media.gallery = Gallery
    /\ file[last.j].media.image.source = None
    /\ doc[last.j].media.image.credit = <<"Bob">>

\* the part of a document the engine has no business with
FrameOf(d) == [k \in DOMAIN d |-> Others(d[k])]

\* C9: no step of any run, whatever --overwrite and whatever the upstream
\* answers or fails to answer, changes a field outside media.image or the
\* number of POIs, in memory or on disk.
C9_Frame ==
    [][FrameOf(doc') = FrameOf(doc) /\ FrameOf(file') = FrameOf(file)]_vars

C9_Witness ==
    /\ pc = "done"
    /\ runs = MaxRuns
    /\ \E j \in DOMAIN doc :
          /\ outcome[j].changed
          /\ file[j].media.gallery = Gallery
          /\ file[j].media.image.license # None

\* the value set_media leaves in a field: the result's when it gives one
Merged(result, before) == IF Truthy(result) THEN result ELSE before

\* C10: after set_media every field holds the Resolution Result's value where
\* the result has one and its old value otherwise, source is the provenance
\* tag, and the value returned is True exactly when media.image differs from
\* what it was; when it is False the whole POI is as it was.
C10_MergeRule ==
    (Resolved /\ outcome[last.j].via \in {"page", "entity"})
        => LET a == doc[last.j].media.image
               b == file[last.j].media.image
           IN  /\ a.thumb = last.thumb
               /\ a.page = Merged(last.page, b.page)
               /\ a.license = Merged(last.meta.license, b.license)
               /\ a.license_url = Merged(last.meta.license_url, b.license_url)
               /\ a.credit = Merged(last.meta.credit, b.credit)
               /\ a.source = Wikimedia
               /\ outcome[last.j].changed <=> (a # b)
               /\ ~outcome[last.j].changed => doc[last.j] = file[last.j]

C10_Witness ==
    /\ Resolved
    /\ outcome[last.j].via = "entity"
    /\ ~outcome[last.j].changed
    /\ doc[last.j] = file[last.j]
    /\ last.meta # NoMeta

\* urllib.parse.unquote on the tokens of a title
Unquote(s) == [k \in 1..Len(s) |-> IF s[k] = "%28" THEN "(" ELSE s[k]]

\* a URL of the form https://<lang>.<encyclopedia-domain>/wiki/<Title>
OfTheForm(url) ==
    /\ Len(url) >= 4
    /\ url[1] = "https://"
    /\ url[2] \in LangTokens
    /\ url[3] = WikiDomain

\* <Title> percent-decoded, underscores replaced by spaces, fragment stripped
NormalTitle(url) ==
    Replace(Unquote(BeforeHash(SubSeq(url, 4, Len(url)))), "_", " ")

\* C11: for every URL of the form https://<lang>.<domain>/wiki/<Title> the
\* parser returns the pair (lang, title), used for the page-metadata call,
\* where title is <Title> percent-decoded, with underscores replaced by
\* spaces and the in-page fragment stripped.
C11_ParserNormalizes ==
    /\ \A j \in Handled :
          (OfTheForm(file[j].links.wikipedia) /\ outcome[j].via # "skip")
              => \E k \in DOMAIN calls : calls[k] = <<j, "page">>
    /\ (pc = "page" /\ OfTheForm(doc[i].links.wikipedia))
          => /\ loc.lang = <<doc[i].links.wikipedia[2]>>
             /\ loc.title = NormalTitle(doc[i].links.wikipedia)

\* what the parser does: the same without the percent-decoding
C11_ParserKeepsEscapes ==
    /\ \A j \in Handled :
          (OfTheForm(file[j].links.wikipedia) /\ outcome[j].via # "skip")
              => \E k \in DOMAIN calls : calls[k] = <<j, "page">>
    /\ (pc = "page" /\ OfTheForm(doc[i].links.wikipedia))
          => /\ loc.lang = <<doc[i].links.wikipedia[2]>>
             /\ loc.title = Replace(BeforeHash(SubSeq(doc[i].links.wikipedia, 4,
                                                      Len(doc[i].links.wikipedia))),
                                    "_", " ")

\* the calls issued for POI j in this run, in order
CallsOf(j) == SelectSeq(calls, LAMBDA c : c[1] = j)

\* the POI has a reference the parser cannot extract (language, title) from
Unparseable(poi) ==
    Truthy(poi.links.wikipedia) /\ wikipedia_lang_and_title(poi.links.wikipedia) = None

\* the page-metadata call of the POI enrich_poi ended for last was answered
\* "missing": wiki_page is then the POI's own link (an existing page always
\* gives a page_url, and a failed call leaves wiki_page unset)
PageMissing ==
    /\ HasReference(file[last.j])
    /\ last.loc.wiki_page = file[last.j].links.wikipedia

\* enrich_poi has ended for a processed POI whose page path was unavailable
PathUnavailable ==
    /\ Running
    /\ last.j # 0
    /\ outcome[last.j].via # "skip"
    /\ (Unparseable(file[last.j]) \/ PageMissing)

C12_WitnessUnparseable ==
    /\ PathUnavailable
    /\ Unparseable(file[last.j])
    /\ outcome[last.j].via = "entity"
    /\ ThumbOf(doc[last.j]) = commons_thumb_url(FileA, width)

\* the kinds of the calls issued for POI j, in order
KindsOf(j) == [k \in 1..Len(CallsOf(j)) |-> CallsOf(j)[k][2]]

\* page metadata, then entity claims, then asset metadata, each at most
\* once, the asset metadata only right after the entity claims
CallOrders ==
    { <<>>, <<"page">>, <<"entity">>, <<"page", "entity">>, <<"entity", "asset">>,
      <<"page", "entity", "asset">> }

\* C13: POIs are enriched one at a time; each issues at most one page call,
\* then at most one entity call, then at most one asset call, the asset call
\* only after an entity call that returned an image claim; a skipped POI
\* issues no call; and no call of a POI is issued before every call and the
\* write of the previous POIs are over.
C13_CallOrdering ==
    /\ \A k \in 1..(Len(calls) - 1) : calls[k][1] <= calls[k + 1][1]
    /\ \A j \in DOMAIN doc :
          /\ KindsOf(j) \in CallOrders
          /\ outcome[j].via = "skip" => CallsOf(j) = <<>>
          /\ (outcome[j].via = "pending" /\ ~(Running /\ j = i)) => CallsOf(j) = <<>>
    /\ pc \in {"page", "entity", "asset"} =>
          /\ i \in DOMAIN doc
          /\ \A j \in DOMAIN doc : j < i <=> outcome[j].via # "pending"
          /\ \A j \in DOMAIN doc : j >= i => doc[j] = file[j]
          /\ pc = "page" => KindsOf(i) = <<>>
          /\ pc = "entity" => KindsOf(i) \in {<<>>, <<"page">>}
          /\ pc = "asset" =>
                /\ KindsOf(i) \in {<<"entity">>, <<"page", "entity">>}
                /\ loc.p18 # None
    /\ (Running /\ last.j # 0
           /\ \E k \in DOMAIN calls : calls[k] = <<last.j, "asset">>)
          => last.loc.p18 # None

C13_Witness ==
    /\ pc = "asset"
    /\ i = 2
    /\ KindsOf(1) = <<"page", "entity", "asset">>
    /\ outcome[1] = [via |-> "entity", changed |-> TRUE]
    /\ KindsOf(2) = <<"page", "entity">>

\* the entity id the claim names: the stored one when one is stored
\* (non-empty), else the one the page-metadata call discovered
Candidate(poi, wiki_qid) ==
    IF poi.links.wikidata # None /\ poi.links.wikidata # EmptyStr
    THEN poi.links.wikidata
    ELSE wiki_qid

\* C14: the entity-claims call is made with the id stored on the POI's links
\* whenever one is stored, even if the page-metadata call reports another
\* id; with the id the page-metadata call discovered only when none is
\* stored; and not at all when neither exists.
C14_CandidateId ==
    /\ pc = "entity" =>
          /\ Truthy(loc.best_qid)
          /\ loc.best_qid = Candidate(doc[i], loc.wiki_qid)
          /\ EntityKey(loc) = <<"entity", Candidate(doc[i], loc.wiki_qid), <<>>>>
    /\ (Running /\ last.j # 0) =>
          LET poi  == file[last.j]
              made == \E k \in DOMAIN calls : calls[k] = <<last.j, "entity">>
          IN  /\ made <=> Truthy(last.loc.best_qid)
              /\ made => last.loc.best_qid = Candidate(poi, last.loc.wiki_qid)
              /\ (~Truthy(poi.links.wikidata) /\ ~Truthy(last.loc.wiki_qid)) => ~made
              /\ (/\ Truthy(Candidate(poi, last.loc.wiki_qid))
                  /\ outcome[last.j].via # "skip"
                  /\ ~(outcome[last.j].via = "fail" /\ KindsOf(last.j) = <<"page">>))
                    => made

C14_Witness ==
    /\ pc = "entity"
    /\ doc[i].links.wikidata = Q1
    /\ loc.wiki_qid = Q2
    /\ loc.best_qid = Q1
    /\ i > 1
    /\ file[last.j].links.wikidata = EmptyStr
    /\ last.loc.best_qid = Q2

\* C15: enrich_poi writes to the POI only in its final set_media step: while
\* its calls are in flight the POI is as it was, and a POI one of whose calls
\* failed is left exactly as it was before the run, also when an earlier call
\* had returned a usable page thumbnail, and is not counted as updated.
C15_AtomicWrite ==
    /\ pc \in {"page", "entity", "asset"} => doc[i] = file[i]
    /\ Running =>
          /\ \A j \in DOMAIN doc :
                outcome[j].via = "fail"
                    => /\ doc[j] = file[j]
                       /\ ~outcome[j].changed
                       /\ CallsOf(j) # <<>>
          /\ changed = Cardinality({j \in DOMAIN doc : outcome[j].changed})
    /\ pc = "done" =>
          \A j \in DOMAIN doc : outcome[j].via = "fail" => file[j] = doc[j]

C15_Witness ==
    /\ Running
    /\ last.j # 0
    /\ outcome[last.j].via = "fail"
    /\ KindsOf(last.j) = <<"page", "entity", "asset">>
    /\ last.loc.wiki_thumb = WikiThumb
    /\ last.loc.p18 = FileA
    /\ ~doc[last.j].media.image.present
    /\ changed = 0

=============================================================================
